---- MODULE Spec2Model ----
(***************************************************************************)
(* Keystroke-dynamics capture and scoring of static/keystroke.js.          *)
(*                                                                         *)
(* The recorder modelled is the "mejorada y corregida" KeystrokeRecorder   *)
(* (lines 297-425) together with compareKeystrokePatterns (428-480) and    *)
(* analyzeKeystrokePattern (483-545).                                      *)
(*                                                                         *)
(* Time.  performance.now() has sub-millisecond resolution; the clock is   *)
(* counted in ticks of half a millisecond, so Math.round(x) of an elapsed  *)
(* time of d ticks is (d + 1) \div 2 (round half up).  The clock never     *)
(* goes backwards and is positive whenever a handler runs.  Relative times *)
(* stored in records and payloads are whole milliseconds.                  *)
(***************************************************************************)
EXTENDS Integers, Sequences, FiniteSets, TLC

VARIABLES
    now,          \* performance.now(), in half-millisecond ticks
    inputValue,   \* inputEl.value
    timings,      \* const timings = []            (the records)
    startTime,    \* let startTime = null          (ticks, or NULL)
    isRecording,  \* let isRecording = false
    keyStates,    \* let keyStates = new Map()     (key -> {startTime, index})
    hist,         \* key events handled while recording, since the last start/reset
    ret,          \* payload returned by the call that has just run (<<>>: none)
    stopRet,      \* payload returned by the stop() that ended the recording
    pattern1,     \* compareKeystrokePatterns: first argument
    pattern2,     \* compareKeystrokePatterns: second argument
    threshold,    \* compareKeystrokePatterns: third argument, in hundredths
    cmpResult,    \* compareKeystrokePatterns: returned object, <<>> before the call
    data,         \* analyzeKeystrokePattern: argument
    anaResult,    \* analyzeKeystrokePattern: returned object, <<>> before the call
    op,           \* the recorder call or event that ran last
    before,       \* what the recorder held when start()/reset() was last called
    attempts,     \* handlePracticeSession: let attempts = 0
    pending,      \* handlePracticeSession: attempts sent, awaiting sendPracticeAttempt
    registerEnabled,  \* !document.getElementById('register-btn').disabled
    focused,      \* the password field has the focus
    timers        \* auto-start recorder: due times of the setTimeout callbacks not yet run

recVars == <<now, inputValue, timings, startTime, isRecording, keyStates, hist, ret, stopRet>>
cmpVars == <<pattern1, pattern2, threshold, cmpResult>>
anaVars == <<data, anaResult>>
opVars == <<op, before>>
pracVars == <<attempts, pending, registerEnabled, focused>>
autoVars == <<timers>>
vars == <<now, inputValue, timings, startTime, isRecording, keyStates, hist, ret, stopRet,
          pattern1, pattern2, threshold, cmpResult, data, anaResult,
          op, before, attempts, pending, registerEnabled, focused, timers>>

(***************************************************************************)
(* Bounds of the model.                                                    *)
(***************************************************************************)
MaxClock == 2        \* last clock tick (half milliseconds)
MaxEvents == 5       \* key events handled per recording session

Keys == {"a", "b"}           \* ev.key values
InputValues == {"", "pw"}    \* contents of the password field

NULL == -1                   \* JavaScript null, for times (which are never negative)

\* JavaScript truthiness of a time: !t holds for null and for 0.
Falsy(t) == t = NULL \/ t = 0

\* Math.round of an elapsed time of d ticks (d / 2 milliseconds), d >= 0.
MathRoundTicks(d) == (d + 1) \div 2

(***************************************************************************)
(* KeystrokeRecorder (lines 297-425)                                       *)
(***************************************************************************)

\* getCurrentTime(): the clock reading of the running handler.
getCurrentTime == now

\* keyStates.has(keyCode)                                      (line 335)
keyStatesHasNever(k) == FALSE
keyStatesHas(k) == k \in DOMAIN keyStates

\* keyStates.get(keyCode): <<>> for undefined, else <<state>>   (line 364)
keyStatesGetOrLast(k) ==
    IF k \in DOMAIN keyStates THEN <<keyStates[k]>>
    ELSE IF Len(timings) > 0
         THEN <<[startTime |-> timings[Len(timings)].press_time, index |-> Len(timings) - 1]>>
         ELSE <<>>
keyStatesGet(k) == IF k \in DOMAIN keyStates THEN <<keyStates[k]>> ELSE <<>>

\* keyStates.delete(keyCode)                                    (line 374)
keyStatesKeep(k) == keyStates
keyStatesDelete(k) == [x \in DOMAIN keyStates \ {k} |-> keyStates[x]]

\* the filter of exportPayload                                  (line 384)
validTimingAny(t) == t.press_time # NULL
validTiming(t) == t.release_time # NULL /\ t.press_time # NULL

\* timings.filter(validTiming).map(t => ({key, press_time, release_time}))
RECURSIVE filterMap(_)
filterMap(ts) ==
    IF ts = <<>> THEN <<>>
    ELSE LET t == Head(ts)
             rest == filterMap(Tail(ts))
         IN IF validTiming(t)
            THEN <<[key |-> t.key, press_time |-> t.press_time,
                    release_time |-> t.release_time]>> \o rest
            ELSE rest

\* totalTime of exportPayload                                   (lines 379-380)
totalTimeTruncated == IF Falsy(startTime) THEN 0 ELSE (getCurrentTime - startTime) \div 2
totalTime == IF Falsy(startTime) THEN 0 ELSE MathRoundTicks(getCurrentTime - startTime)

\* exportPayload(): the object returned, a function of the state   (lines 378-398)
exportPayload ==
    [password |-> inputValue,
     keystroke_timings |-> filterMap(timings),
     total_time |-> totalTime]

\* startRecording()                                             (lines 307-313)
startRecordingKeepsKeys ==
    /\ timings' = <<>>
    /\ keyStates' = keyStates
    /\ startTime' = getCurrentTime
    /\ isRecording' = TRUE
    /\ hist' = <<>>
    /\ ret' = <<>>
    /\ stopRet' = <<>>
    /\ UNCHANGED <<now, inputValue>>
startRecording ==
    /\ timings' = <<>>
    /\ keyStates' = <<>>
    /\ startTime' = getCurrentTime
    /\ isRecording' = TRUE
    /\ hist' = <<>>
    /\ ret' = <<>>
    /\ stopRet' = <<>>
    /\ UNCHANGED <<now, inputValue>>

\* stopRecording()                                              (lines 315-321)
stopRecording ==
    /\ isRecording' = FALSE
    /\ ret' = <<exportPayload>>
    /\ stopRet' = IF isRecording \/ stopRet = <<>> THEN <<exportPayload>> ELSE stopRet
    /\ UNCHANGED <<now, inputValue, timings, startTime, keyStates, hist>>

\* onKeyDown(ev), ev.key = k                                    (lines 323-354)
onKeyDownUnguarded(k) ==
    LET currentTime == getCurrentTime
        start == IF Falsy(startTime) THEN currentTime ELSE startTime
        relativeTime == MathRoundTicks(currentTime - start)
    IN /\ startTime' = start
       /\ hist' = Append(hist, [op |-> "down", key |-> k])
       /\ IF keyStatesHas(k)
          THEN UNCHANGED <<timings, keyStates>>
          ELSE /\ keyStates' = (k :> [startTime |-> relativeTime, index |-> Len(timings)])
                               @@ keyStates
               /\ timings' = Append(timings,
                                    [key |-> k, press_time |-> relativeTime,
                                     release_time |-> NULL, index |-> Len(timings)])
       /\ ret' = <<>>
       /\ UNCHANGED <<now, inputValue, isRecording, stopRet>>
onKeyDown(k) ==
    IF ~isRecording
    THEN ret' = <<>> /\ UNCHANGED <<now, inputValue, timings, startTime, isRecording,
                                   keyStates, hist, stopRet>>
    ELSE LET currentTime == getCurrentTime
             start == IF Falsy(startTime) THEN currentTime ELSE startTime
             relativeTime == MathRoundTicks(currentTime - start)
         IN /\ startTime' = start
            /\ hist' = Append(hist, [op |-> "down", key |-> k])
            /\ IF keyStatesHas(k)
               THEN UNCHANGED <<timings, keyStates>>
               ELSE /\ keyStates' = (k :> [startTime |-> relativeTime, index |-> Len(timings)])
                                    @@ keyStates
                    /\ timings' = Append(timings,
                                         [key |-> k, press_time |-> relativeTime,
                                          release_time |-> NULL, index |-> Len(timings)])
            /\ ret' = <<>>
            /\ UNCHANGED <<now, inputValue, isRecording, stopRet>>

\* onKeyUp(ev), ev.key = k                                      (lines 356-376)
onKeyUpUnguarded(k) ==
    LET currentTime == getCurrentTime
        relativeTime == MathRoundTicks(currentTime - startTime)
        keyState == keyStatesGet(k)
    IN /\ hist' = Append(hist, [op |-> "up", key |-> k])
       /\ IF keyState # <<>>
          THEN LET timingIndex == keyState[1].index + 1
               IN /\ timings' =
                       IF /\ timingIndex \in DOMAIN timings
                          /\ timings[timingIndex].release_time = NULL
                       THEN [timings EXCEPT ![timingIndex].release_time = relativeTime]
                       ELSE timings
                  /\ keyStates' = keyStatesDelete(k)
          ELSE UNCHANGED <<timings, keyStates>>
       /\ ret' = <<>>
       /\ UNCHANGED <<now, inputValue, startTime, isRecording, stopRet>>
onKeyUpOverwrite(k) ==
    IF ~isRecording
    THEN ret' = <<>> /\ UNCHANGED <<now, inputValue, timings, startTime, isRecording,
                                   keyStates, hist, stopRet>>
    ELSE LET currentTime == getCurrentTime
             relativeTime == MathRoundTicks(currentTime - startTime)
             keyState == keyStatesGet(k)
         IN /\ hist' = Append(hist, [op |-> "up", key |-> k])
            /\ IF keyState # <<>>
               THEN LET timingIndex == keyState[1].index + 1
                    IN /\ timings' =
                            IF timingIndex \in DOMAIN timings
                            THEN [timings EXCEPT ![timingIndex].release_time = relativeTime]
                            ELSE timings
                       /\ keyStates' = keyStates
               ELSE UNCHANGED <<timings, keyStates>>
            /\ ret' = <<>>
            /\ UNCHANGED <<now, inputValue, startTime, isRecording, stopRet>>
onKeyUp(k) ==
    IF ~isRecording
    THEN ret' = <<>> /\ UNCHANGED <<now, inputValue, timings, startTime, isRecording,
                                   keyStates, hist, stopRet>>
    ELSE LET currentTime == getCurrentTime
             relativeTime == MathRoundTicks(currentTime - startTime)
             keyState == keyStatesGet(k)
         IN /\ hist' = Append(hist, [op |-> "up", key |-> k])
            /\ IF keyState # <<>>
               THEN LET timingIndex == keyState[1].index + 1
                    IN /\ timings' =
                            IF /\ timingIndex \in DOMAIN timings
                               /\ timings[timingIndex].release_time = NULL
                            THEN [timings EXCEPT ![timingIndex].release_time = relativeTime]
                            ELSE timings
                       /\ keyStates' = keyStatesDelete(k)
               ELSE UNCHANGED <<timings, keyStates>>
            /\ ret' = <<>>
            /\ UNCHANGED <<now, inputValue, startTime, isRecording, stopRet>>

\* export: exportPayload, called by the host                    (line 414)
Export ==
    /\ ret' = <<exportPayload>>
    /\ UNCHANGED <<now, inputValue, timings, startTime, isRecording, keyStates, hist, stopRet>>

\* reset                                                        (lines 417-423)
resetKeepsStartTime ==
    /\ timings' = <<>>
    /\ keyStates' = <<>>
    /\ startTime' = startTime
    /\ isRecording' = FALSE
    /\ hist' = <<>>
    /\ ret' = <<>>
    /\ stopRet' = <<>>
    /\ UNCHANGED <<now, inputValue>>
reset ==
    /\ timings' = <<>>
    /\ keyStates' = <<>>
    /\ startTime' = NULL
    /\ isRecording' = FALSE
    /\ hist' = <<>>
    /\ ret' = <<>>
    /\ stopRet' = <<>>
    /\ UNCHANGED <<now, inputValue>>

\* Time passes between two handlers.
Tick ==
    /\ now < MaxClock
    /\ now' = now + 1
    /\ ret' = <<>>
    /\ UNCHANGED <<inputValue, timings, startTime, isRecording, keyStates, hist, stopRet>>

\* The user edits the field: inputEl.value changes               (line 405)
Input(v) ==
    /\ v # inputValue
    /\ inputValue' = v
    /\ ret' = <<>>
    /\ UNCHANGED <<now, timings, startTime, isRecording, keyStates, hist, stopRet>>

RecInit ==
    /\ now = 1
    /\ inputValue = ""
    /\ timings = <<>>
    /\ startTime = NULL
    /\ isRecording = FALSE
    /\ keyStates = <<>>
    /\ hist = <<>>
    /\ ret = <<>>
    /\ stopRet = <<>>

NoCompare ==
    /\ pattern1 = <<>>
    /\ pattern2 = <<>>
    /\ threshold = 0
    /\ cmpResult = <<>>

NoAnalyze ==
    /\ data = <<>>
    /\ anaResult = <<>>

NoCalls ==
    /\ op = [name |-> "none", key |-> ""]
    /\ before = [name |-> "none", recording |-> FALSE, records |-> 0, open |-> {}]

\* handlePracticeSession before any event                       (lines 570-572)
PracticeInit ==
    /\ attempts = 0
    /\ pending = <<>>
    /\ registerEnabled = FALSE
    /\ focused = FALSE

\* no setTimeout callback is scheduled
NoTimers == timers = <<>>

Init == RecInit /\ NoCompare /\ NoAnalyze /\ NoCalls /\ PracticeInit /\ NoTimers

Next ==
    \/ Tick /\ UNCHANGED <<cmpVars, anaVars, opVars, pracVars, autoVars>>
    \/ \E v \in InputValues : Input(v) /\ UNCHANGED <<cmpVars, anaVars, opVars, pracVars, autoVars>>
    \/ startRecording /\ UNCHANGED <<cmpVars, anaVars, opVars, pracVars, autoVars>>
    \/ stopRecording /\ UNCHANGED <<cmpVars, anaVars, opVars, pracVars, autoVars>>
    \/ \E k \in Keys : Len(hist) < MaxEvents /\ onKeyDown(k) /\ UNCHANGED <<cmpVars, anaVars, opVars, pracVars, autoVars>>
    \/ \E k \in Keys : Len(hist) < MaxEvents /\ onKeyUp(k) /\ UNCHANGED <<cmpVars, anaVars, opVars, pracVars, autoVars>>
    \/ Export /\ UNCHANGED <<cmpVars, anaVars, opVars, pracVars, autoVars>>
    \/ reset /\ UNCHANGED <<cmpVars, anaVars, opVars, pracVars, autoVars>>

Spec == Init /\ [][Next]_vars

(***************************************************************************)
(* The same recorder, driven through its API by any host, with the last    *)
(* call on record: op is the call or event that ran last, before is what   *)
(* the recorder held when start() or reset() was last called.              *)
(***************************************************************************)
MaxCallEvents == 3   \* key events handled per recording session, calls on record

Called(name, k) ==
    /\ op' = [name |-> name, key |-> k]
    /\ before' = IF name \in {"start", "reset"}
                 THEN [name |-> name, recording |-> isRecording,
                       records |-> Len(timings), open |-> DOMAIN keyStates]
                 ELSE before
    /\ UNCHANGED <<cmpVars, anaVars, pracVars, autoVars>>

CallsNext ==
    \/ Tick /\ Called("tick", "")
    \/ \E v \in InputValues : Input(v) /\ Called("input", "")
    \/ startRecording /\ Called("start", "")
    \/ stopRecording /\ Called("stop", "")
    \/ \E k \in Keys : Len(hist) < MaxCallEvents /\ onKeyDown(k) /\ Called("down", k)
    \/ \E k \in Keys : Len(hist) < MaxCallEvents /\ onKeyUp(k) /\ Called("up", k)
    \/ Export /\ Called("export", "")
    \/ reset /\ Called("reset", "")

SpecCalls == Init /\ [][CallsNext]_vars

(***************************************************************************)
(* handlePracticeSession (lines 569-630): one recorder on the password     *)
(* field, started on focus, stopped on blur; every stopped attempt is sent *)
(* with sendPracticeAttempt (lines 547-566) and the listener resumes when  *)
(* the answer arrives.  Answers arrive in any order (each fetch is its own *)
(* request), at any later time, while the user goes on using the field.    *)
(* A pending attempt is kept as its number (the value of attempts when it  *)
(* was sent) and the number of keystrokes in its payload; the payload is   *)
(* serialised when it is sent and the listener never reads it again.       *)
(***************************************************************************)
maxAttempts == 3          \* const maxAttempts = 3              (line 572)

MaxPracticeEvents == 2    \* key events handled per recording session
MaxPending == 2           \* attempts awaiting their answer at the same time
MaxAttemptCount == 4      \* largest value of attempts explored

\* what sendPracticeAttempt resolves to: the server's JSON, or the catch branch
Results ==
    { [success |-> TRUE, can_register |-> TRUE],
      [success |-> TRUE, can_register |-> FALSE],
      [success |-> FALSE, can_register |-> FALSE] }

\* the recorder is not called
recorderUntouched ==
    /\ ret' = <<>>
    /\ UNCHANGED <<now, inputValue, timings, startTime, isRecording, keyStates, hist, stopRet>>

RemoveAt(q, i) == [j \in 1..(Len(q) - 1) |-> IF j < i THEN q[j] ELSE q[j + 1]]

PracticeDid(name, k) ==
    /\ op' = [name |-> name, key |-> k]
    /\ UNCHANGED <<before, cmpVars, anaVars, autoVars>>

\* focus listener                                               (lines 575-579)
PracticeFocus ==
    /\ ~focused
    /\ focused' = TRUE
    /\ IF ~isRecording THEN startRecording ELSE recorderUntouched
    /\ UNCHANGED <<attempts, pending, registerEnabled>>

\* blur listener up to its await                                (lines 582-595)
PracticeBlur ==
    /\ focused
    /\ focused' = FALSE
    /\ IF isRecording /\ Len(inputValue) > 0
       THEN /\ attempts < MaxAttemptCount
            /\ Len(pending) < MaxPending
            /\ stopRecording
            /\ attempts' = attempts + 1
            /\ pending' = Append(pending, [n |-> attempts + 1,
                                         keys |-> Len(exportPayload.keystroke_timings)])
       ELSE /\ recorderUntouched
            /\ UNCHANGED <<attempts, pending>>
    /\ UNCHANGED registerEnabled

\* blur listener after its await: the answer to pending[i] arrived (lines 595-625)
PracticeResponse(i, result) ==
    /\ i \in DOMAIN pending
    /\ pending' = RemoveAt(pending, i)
    /\ IF result.success /\ attempts >= maxAttempts
       THEN IF result.can_register
            THEN /\ registerEnabled' = TRUE
                 /\ recorderUntouched
                 /\ UNCHANGED attempts
            ELSE /\ attempts' = 0
                 /\ reset
                 /\ UNCHANGED registerEnabled
       ELSE /\ recorderUntouched
            /\ UNCHANGED <<attempts, registerEnabled>>
    /\ UNCHANGED focused

\* keydown / keyup / input reach the field's listeners while it has the focus
PracticeKeyDown(k) ==
    /\ focused
    /\ Len(hist) < MaxPracticeEvents
    /\ onKeyDown(k)
    /\ UNCHANGED pracVars

PracticeKeyUp(k) ==
    /\ focused
    /\ Len(hist) < MaxPracticeEvents
    /\ onKeyUp(k)
    /\ UNCHANGED pracVars

PracticeInput(v) ==
    /\ focused
    /\ Input(v)
    /\ UNCHANGED pracVars

PracticeTick == Tick /\ UNCHANGED pracVars

PracticeNext ==
    \/ PracticeTick /\ PracticeDid("tick", "")
    \/ PracticeFocus /\ PracticeDid("focus", "")
    \/ PracticeBlur /\ PracticeDid("blur", "")
    \/ \E v \in InputValues : PracticeInput(v) /\ PracticeDid("input", "")
    \/ \E k \in Keys : PracticeKeyDown(k) /\ PracticeDid("down", k)
    \/ \E k \in Keys : PracticeKeyUp(k) /\ PracticeDid("up", k)
    \/ \E i \in 1..MaxPending, result \in Results :
           PracticeResponse(i, result) /\ PracticeDid("response", "")

SpecPractice == Init /\ [][PracticeNext]_vars

(***************************************************************************)
(* KeystrokeRecorder, auto-start variant (lines 4-125): the recorder       *)
(* itself listens to focus and blur.  focus starts a recording when none   *)
(* is running; blur, when a recording is running and the field is not      *)
(* empty, schedules with setTimeout a callback that stops the recording    *)
(* 100 ms later.  The callback is never cancelled.  Here keyStates maps a  *)
(* held key to true, and onKeyUp finds the record to close by searching    *)
(* timings from the end.  The recorder is driven by the field's events.    *)
(* The clock advances by half a millisecond (Tick) or by the delay of the  *)
(* timer (v1_Wait); a callback runs at any moment from its due time on.    *)
(***************************************************************************)
autoStopDelay == 100      \* setTimeout(..., 100), in milliseconds   (line 108)

MaxAutoEvents == 2        \* key events handled per recording session
MaxTimers == 2            \* setTimeout callbacks scheduled and not yet run

\* a handler of the auto-start recorder returns without touching its state
v1_returns ==
    /\ ret' = <<>>
    /\ UNCHANGED <<now, inputValue, timings, startTime, isRecording, keyStates, hist, stopRet>>

\* the filter of exportPayload: t.release_time !== null          (line 79)
v1_validTiming(t) == t.release_time # NULL

RECURSIVE v1_filterMap(_)
v1_filterMap(ts) ==
    IF ts = <<>> THEN <<>>
    ELSE LET t == Head(ts)
             rest == v1_filterMap(Tail(ts))
         IN IF v1_validTiming(t)
            THEN <<[key |-> t.key, press_time |-> t.press_time,
                    release_time |-> t.release_time]>> \o rest
            ELSE rest

\* exportPayload()                                              (lines 73-91)
v1_exportPayload ==
    [password |-> inputValue,
     keystroke_timings |-> v1_filterMap(timings),
     total_time |-> IF Falsy(startTime) THEN 0
                    ELSE MathRoundTicks(getCurrentTime - startTime)]

\* startRecording()                                             (lines 14-19)
v1_startRecording ==
    /\ timings' = <<>>
    /\ keyStates' = <<>>
    /\ startTime' = getCurrentTime
    /\ isRecording' = TRUE
    /\ hist' = <<>>
    /\ ret' = <<>>
    /\ stopRet' = <<>>
    /\ UNCHANGED <<now, inputValue>>

\* stopRecording()                                              (lines 21-24)
v1_stopRecording ==
    /\ isRecording' = FALSE
    /\ ret' = <<v1_exportPayload>>
    /\ stopRet' = <<v1_exportPayload>>
    /\ UNCHANGED <<now, inputValue, timings, startTime, keyStates, hist>>

\* onKeyDown(ev), ev.key = k                                    (lines 26-52)
v1_onKeyDown(k) ==
    IF ~isRecording
    THEN v1_returns
    ELSE LET currentTime == getCurrentTime
             start == IF Falsy(startTime) THEN currentTime ELSE startTime
             relativeTime == MathRoundTicks(currentTime - start)
         IN /\ startTime' = start
            /\ hist' = Append(hist, [op |-> "down", key |-> k])
            /\ IF k \in DOMAIN keyStates
               THEN UNCHANGED <<timings, keyStates>>
               ELSE /\ keyStates' = (k :> TRUE) @@ keyStates
                    /\ timings' = Append(timings,
                                         [key |-> k, press_time |-> relativeTime,
                                          release_time |-> NULL, index |-> Len(timings)])
            /\ ret' = <<>>
            /\ UNCHANGED <<now, inputValue, isRecording, stopRet>>

\* the loop of onKeyUp: positions of the open records of key k  (lines 65-70)
v1_openRecords(k) ==
    {i \in DOMAIN timings : timings[i].key = k /\ timings[i].release_time = NULL}

\* onKeyUp(ev), ev.key = k                                      (lines 54-71)
v1_onKeyUp(k) ==
    IF ~isRecording
    THEN v1_returns
    ELSE LET currentTime == getCurrentTime
             relativeTime == MathRoundTicks(currentTime - startTime)
             open == v1_openRecords(k)
         IN /\ hist' = Append(hist, [op |-> "up", key |-> k])
            /\ keyStates' = [x \in DOMAIN keyStates \ {k} |-> keyStates[x]]
            /\ timings' =
                   IF open = {} THEN timings
                   ELSE LET last == CHOOSE i \in open : \A j \in open : j <= i
                        IN [timings EXCEPT ![last].release_time = relativeTime]
            /\ ret' = <<>>
            /\ UNCHANGED <<now, inputValue, startTime, isRecording, stopRet>>

\* focus listener                                               (lines 98-100)
v1_onFocus ==
    /\ ~focused
    /\ focused' = TRUE
    /\ IF ~isRecording THEN v1_startRecording ELSE v1_returns
    /\ UNCHANGED timers

\* blur listener: schedules the delayed stop                    (lines 103-110)
v1_onBlur ==
    /\ focused
    /\ focused' = FALSE
    /\ v1_returns
    /\ IF isRecording /\ Len(inputValue) > 0
       THEN /\ Len(timers) < MaxTimers
            /\ timers' = Append(timers, getCurrentTime + 2 * autoStopDelay)
       ELSE UNCHANGED timers

\* the callback given to setTimeout runs                        (lines 106-108)
v1_onTimeout ==
    /\ timers # <<>>
    /\ getCurrentTime >= Head(timers)
    /\ timers' = Tail(timers)
    /\ IF isRecording THEN v1_stopRecording ELSE v1_returns
    /\ UNCHANGED focused

v1_KeyDown(k) ==
    /\ focused
    /\ Len(hist) < MaxAutoEvents
    /\ v1_onKeyDown(k)
    /\ UNCHANGED <<focused, timers>>

v1_KeyUp(k) ==
    /\ focused
    /\ Len(hist) < MaxAutoEvents
    /\ v1_onKeyUp(k)
    /\ UNCHANGED <<focused, timers>>

v1_Input(v) ==
    /\ focused
    /\ Input(v)
    /\ UNCHANGED <<focused, timers>>

v1_Tick == Tick /\ UNCHANGED <<focused, timers>>

\* the delay of the timer passes
v1_Wait ==
    /\ now <= MaxClock
    /\ now' = now + 2 * autoStopDelay
    /\ ret' = <<>>
    /\ UNCHANGED <<inputValue, timings, startTime, isRecording, keyStates, hist, stopRet>>
    /\ UNCHANGED <<focused, timers>>

v1_Did(name, k) ==
    /\ op' = [name |-> name, key |-> k]
    /\ UNCHANGED <<before, cmpVars, anaVars, attempts, pending, registerEnabled>>

AutoNext ==
    \/ v1_Tick /\ v1_Did("tick", "")
    \/ v1_Wait /\ v1_Did("wait", "")
    \/ v1_onFocus /\ v1_Did("focus", "")
    \/ v1_onBlur /\ v1_Did("blur", "")
    \/ v1_onTimeout /\ v1_Did("timeout", "")
    \/ \E v \in InputValues : v1_Input(v) /\ v1_Did("input", "")
    \/ \E k \in Keys : v1_KeyDown(k) /\ v1_Did("down", k)
    \/ \E k \in Keys : v1_KeyUp(k) /\ v1_Did("up", k)

SpecAuto == Init /\ [][AutoNext]_vars

(***************************************************************************)
(* compareKeystrokePatterns (lines 428-480)                                *)
(*                                                                         *)
(* A pattern is a record with a password and, unless it is missing, a      *)
(* keystroke_timings list.  Scores and thresholds are counted in           *)
(* hundredths (threshold 70 is 0.7); the arithmetic is exact (a score     *)
(* exactly halfway between two hundredths rounds up here; in floating      *)
(* point such a tie can fall either way).                                  *)
(***************************************************************************)
MaxCmpLen == 3               \* longest timing list given to the comparator

Passwords == {"pw", "px"}
Thresholds == {0, 70, 100, 101}
CmpEntries ==
    { [key |-> "a", press_time |-> 0, release_time |-> 100],
      [key |-> "a", press_time |-> 0, release_time |-> 191],
      [key |-> "a", press_time |-> 7, release_time |-> 7],
      [key |-> "b", press_time |-> 0, release_time |-> 100] }

TimingLists(entries, n) == UNION {[1..m -> entries] : m \in 0..n}

\* payloads with a timing list, and objects without one
Patterns ==
    {[password |-> pw, keystroke_timings |-> ts, total_time |-> 0] :
        pw \in Passwords, ts \in TimingLists(CmpEntries, MaxCmpLen)}
    \cup {[password |-> pw] : pw \in Passwords}

Abs(x) == IF x < 0 THEN -x ELSE x
Min(x, y) == IF x < y THEN x ELSE y

maxExpectedDiff == 150       \* line 470
lengthTolerance == 2         \* line 442

\* !pattern.keystroke_timings                                   (line 429)
lacksTimings(p) == "keystroke_timings" \notin DOMAIN p

\* pattern1.password !== pattern2.password                      (line 437)
passwordsDifferNever(p1, p2) == FALSE
passwordsDiffer(p1, p2) == p1.password # p2.password

\* Math.abs(timings1.length - timings2.length) > 2              (line 442)
lengthsTooDifferentOff(t1, t2) == Abs(Len(t1) - Len(t2)) >= lengthTolerance
lengthsTooDifferent(t1, t2) == Abs(Len(t1) - Len(t2)) > lengthTolerance

\* the loop of lines 451-462, from position i on:
\* <<totalDifference, validComparisons>>
RECURSIVE dwellLoopNoSkip(_, _, _, _)
dwellLoopNoSkip(t1, t2, i, minLength) ==
    IF i > minLength THEN <<0, 0>>
    ELSE LET rest == dwellLoopNoSkip(t1, t2, i + 1, minLength)
             dwell1 == t1[i].release_time - t1[i].press_time
             dwell2 == t2[i].release_time - t2[i].press_time
         IN IF t1[i].key = t2[i].key
            THEN <<rest[1] + Abs(dwell1 - dwell2), rest[2] + 1>>
            ELSE rest
RECURSIVE dwellLoop(_, _, _, _)
dwellLoop(t1, t2, i, minLength) ==
    IF i > minLength THEN <<0, 0>>
    ELSE LET rest == dwellLoop(t1, t2, i + 1, minLength)
             dwell1 == t1[i].release_time - t1[i].press_time
             dwell2 == t2[i].release_time - t2[i].press_time
         IN IF t1[i].key = t2[i].key /\ dwell1 > 0 /\ dwell2 > 0
            THEN <<rest[1] + Abs(dwell1 - dwell2), rest[2] + 1>>
            ELSE rest

\* score >= threshold, for score = Math.max(0, 1 - total/n/150)  (lines 469-474)
scoreAtLeastRounded(total, n, th) ==
    (IF total >= n * maxExpectedDiff THEN 0
     ELSE (200 * (n * maxExpectedDiff - total) + n * maxExpectedDiff)
              \div (2 * n * maxExpectedDiff)) >= th
scoreAtLeast(total, n, th) ==
    IF total >= n * maxExpectedDiff THEN 0 >= th
    ELSE 100 * (n * maxExpectedDiff - total) >= th * n * maxExpectedDiff

\* Math.round(score * 100), the returned score in hundredths     (line 475)
roundedScore(total, n) ==
    IF total >= n * maxExpectedDiff THEN 0
    ELSE (200 * (n * maxExpectedDiff - total) + n * maxExpectedDiff)
             \div (2 * n * maxExpectedDiff)

\* the object compareKeystrokePatterns(pattern1, pattern2, threshold) returns
compareKeystrokePatterns(p1, p2, th) ==
    IF lacksTimings(p1) \/ lacksTimings(p2)
    THEN [similar |-> FALSE, score |-> 0, reason |-> "Datos insuficientes"]
    ELSE IF passwordsDiffer(p1, p2)
    THEN [similar |-> FALSE, score |-> 0, reason |-> "Contrasenas diferentes"]
    ELSE IF lengthsTooDifferent(p1.keystroke_timings, p2.keystroke_timings)
    THEN [similar |-> FALSE, score |-> 0, reason |-> "Longitudes muy diferentes"]
    ELSE LET timings1 == p1.keystroke_timings
             timings2 == p2.keystroke_timings
             acc == dwellLoop(timings1, timings2, 1, Min(Len(timings1), Len(timings2)))
             totalDifference == acc[1]
             validComparisons == acc[2]
         IN IF validComparisons = 0
            THEN [similar |-> FALSE, score |-> 0, reason |-> "No hay comparaciones validas"]
            ELSE [similar |-> scoreAtLeast(totalDifference, validComparisons, th),
                  score |-> roundedScore(totalDifference, validComparisons),
                  reason |-> IF scoreAtLeast(totalDifference, validComparisons, th)
                             THEN "Patron consistente" ELSE "Patron inconsistente",
                  avgDifference |-> (2 * totalDifference + validComparisons)
                                        \div (2 * validComparisons),
                  validComparisons |-> validComparisons]

\* A caller compares two patterns.
Compare ==
    /\ cmpResult = <<>>
    /\ cmpResult' = <<compareKeystrokePatterns(pattern1, pattern2, threshold)>>
    /\ UNCHANGED <<pattern1, pattern2, threshold>>

CmpInit ==
    /\ pattern1 \in Patterns
    /\ pattern2 \in Patterns
    /\ threshold \in Thresholds
    /\ cmpResult = <<>>

CmpNext == Compare /\ UNCHANGED <<recVars, anaVars, opVars, pracVars, autoVars>>

InitCompare == CmpInit /\ RecInit /\ NoAnalyze /\ NoCalls /\ PracticeInit /\ NoTimers

SpecCompare == InitCompare /\ [][CmpNext]_vars

(***************************************************************************)
(* analyzeKeystrokePattern (lines 483-545)                                 *)
(*                                                                         *)
(* count > length * 0.3 is computed as 10 * count > 3 * length, and        *)
(* count > length * 0.5 as 2 * count > length (the floating-point          *)
(* comparisons agree with these for every length below 60).                *)
(***************************************************************************)
MaxAnaLen == 10              \* longest timing list given to the analyzer

AnaEntries ==
    { [key |-> "a", press_time |-> 0, release_time |-> 600],      \* dwell 600
      [key |-> "a", press_time |-> 700, release_time |-> 700],    \* dwell 0
      [key |-> "a", press_time |-> 650, release_time |-> 670] }   \* dwell 20

AnaData ==
    {[password |-> "pw", keystroke_timings |-> ts, total_time |-> 0] :
        ts \in TimingLists(AnaEntries, MaxAnaLen)}
    \cup {[password |-> "pw"]}

longDwellLimit == 500        \* line 517
shortDwellLimit == 30        \* line 518

RECURSIVE Sum(_)
Sum(xs) == IF xs = <<>> THEN 0 ELSE Head(xs) + Sum(Tail(xs))

\* Math.round(sum / n) for sum >= 0, n > 0
MathRoundAvg(sum, n) == (2 * sum + n) \div (2 * n)

\* the loop of lines 494-499: the dwells > 0, in order
RECURSIVE positiveDwells(_)
positiveDwells(ts) ==
    IF ts = <<>> THEN <<>>
    ELSE LET dwell == Head(ts).release_time - Head(ts).press_time
         IN IF dwell > 0 THEN <<dwell>> \o positiveDwells(Tail(ts))
            ELSE positiveDwells(Tail(ts))

\* the loop of lines 501-504, from position i on: the flights >= 0, in order
RECURSIVE keptFlights(_, _)
keptFlights(ts, i) ==
    IF i > Len(ts) - 1 THEN <<>>
    ELSE LET flight == ts[i + 1].press_time - ts[i].release_time
         IN IF flight >= 0 THEN <<flight>> \o keptFlights(ts, i + 1)
            ELSE keptFlights(ts, i + 1)

\* dwellTimes.filter(d => d > 500).length                       (line 517)
countLong(xs) == Cardinality({i \in DOMAIN xs : xs[i] > longDwellLimit})

\* dwellTimes.filter(d => d < 30).length                        (line 518)
countShort(xs) == Cardinality({i \in DOMAIN xs : xs[i] < shortDwellLimit})

\* flightTimes.filter(f => f < 0).length                        (line 529)
countNegative(xs) == Cardinality({i \in DOMAIN xs : xs[i] < 0})

\* the length the dwell counts are compared with                 (lines 520, 524)
dwellDenominatorValid(ts, dwellTimes) == Len(dwellTimes)
dwellDenominator(ts, dwellTimes) == Len(ts)

\* the object analyzeKeystrokePattern(data) returns
analyzeKeystrokePattern(d) ==
    IF "keystroke_timings" \notin DOMAIN d \/ Len(d.keystroke_timings) = 0
    THEN [valid |-> FALSE, reason |-> "Sin datos de timing"]
    ELSE LET ts == d.keystroke_timings
             dwellTimes == positiveDwells(ts)
             flightTimes == keptFlights(ts, 1)
         IN IF Len(dwellTimes) = 0
            THEN [valid |-> FALSE, reason |-> "No hay dwell times validos"]
            ELSE LET avgDwell == MathRoundAvg(Sum(dwellTimes), Len(dwellTimes))
                     avgFlight == IF Len(flightTimes) > 0
                                  THEN MathRoundAvg(Sum(flightTimes), Len(flightTimes))
                                  ELSE 0
                     longDwells == countLong(dwellTimes)
                     shortDwells == countShort(dwellTimes)
                     negativeFlights == countNegative(flightTimes)
                     anomalies ==
                         (IF 10 * longDwells > 3 * dwellDenominator(ts, dwellTimes)
                          THEN <<"Muchas teclas mantenidas demasiado tiempo">> ELSE <<>>)
                         \o (IF 10 * shortDwells > 3 * dwellDenominator(ts, dwellTimes)
                             THEN <<"Muchas teclas presionadas muy rapido">> ELSE <<>>)
                         \o (IF 2 * negativeFlights > Len(flightTimes)
                             THEN <<"Demasiadas teclas superpuestas">> ELSE <<>>)
                 IN [valid |-> Len(anomalies) = 0,
                     anomalies |-> anomalies,
                     stats |-> [avgDwell |-> avgDwell,
                                avgFlight |-> avgFlight,
                                totalKeys |-> Len(ts),
                                validDwells |-> Len(dwellTimes),
                                totalTime |-> d.total_time]]

\* A caller analyzes a payload.
Analyze ==
    /\ anaResult = <<>>
    /\ anaResult' = <<analyzeKeystrokePattern(data)>>
    /\ UNCHANGED data

AnaInit ==
    /\ data \in AnaData
    /\ anaResult = <<>>

AnaNext == Analyze /\ UNCHANGED <<recVars, cmpVars, opVars, pracVars, autoVars>>

InitAnalyze == AnaInit /\ RecInit /\ NoCompare /\ NoCalls /\ PracticeInit /\ NoTimers

SpecAnalyze == InitAnalyze /\ [][AnaNext]_vars

(***************************************************************************)
(* Vocabulary of the recorder claims                                       *)
(***************************************************************************)

\* positions of the records of key k, and of its open (unreleased) records
RecordsOf(k) == {i \in DOMAIN timings : timings[i].key = k}
OpenOf(k) == {i \in RecordsOf(k) : timings[i].release_time = NULL}

\* the key events of the session that concern key k, in order ("down"/"up")
RECURSIVE OpsOf(_, _)
OpsOf(h, k) ==
    IF h = <<>> THEN <<>>
    ELSE IF Head(h).key = k THEN <<Head(h).op>> \o OpsOf(Tail(h), k)
         ELSE OpsOf(Tail(h), k)

\* p is Press x n (n >= 1), optionally followed by one Release
IsHeldKey(p) ==
    /\ Len(p) >= 1
    /\ p[1] = "down"
    /\ \A i \in 1..Len(p) - 1 : p[i] = "down"

\* C1 -- key-repeat suppression: while recording, once the events of a key are
\* Press x n (n >= 1), or Press x n followed by its Release, whatever events of
\* other keys are interleaved, there is exactly one record of that key; the
\* repeated presses appended nothing.
C1_KeyRepeatSuppression ==
    \A k \in Keys :
        IsHeldKey(OpsOf(hist, k)) => Cardinality(RecordsOf(k)) = 1

\* witness of C1: Press(k), Press(k), Release(k) with another key's events interleaved
C1_Witness ==
    \E k \in Keys :
        LET p == OpsOf(hist, k)
        IN /\ Len(p) >= 3
           /\ IsHeldKey(p)
           /\ p[Len(p)] = "up"
           /\ Len(hist) > Len(p)
           /\ Cardinality(RecordsOf(k)) = 1

\* C2 -- unmatched release safety: while recording, a release of a key that has no
\* open record (never pressed, or already released) leaves the records and the
\* open-key map exactly as they were.
C2_UnmatchedReleaseNoEffect ==
    [][\A k \in Keys :
          (/\ isRecording
           /\ OpenOf(k) = {}
           /\ hist' = Append(hist, [op |-> "up", key |-> k]))
          => (timings' = timings /\ keyStates' = keyStates)]_vars

\* witness of C2: the last event is a second release of k in a row, while a record
\* of another key is still open and is the last record
C2_Witness ==
    \E k \in Keys :
        LET p == OpsOf(hist, k)
        IN /\ Len(p) >= 2
           /\ p[Len(p)] = "up"
           /\ p[Len(p) - 1] = "up"
           /\ hist[Len(hist)] = [op |-> "up", key |-> k]
           /\ timings # <<>>
           /\ timings[Len(timings)].release_time = NULL
           /\ timings[Len(timings)].key # k

\* C3 -- reopen after close: Press(k), Release(k), Press(k), Release(k), with any
\* events of other keys in between, leaves exactly two records of k, both closed,
\* the second pressed no earlier than the first was released.
C3_ReopenAfterClose ==
    \A k \in Keys :
        OpsOf(hist, k) = <<"down", "up", "down", "up">> =>
            /\ Cardinality(RecordsOf(k)) = 2
            /\ OpenOf(k) = {}
            /\ \A i, j \in RecordsOf(k) :
                   i < j => timings[j].press_time >= timings[i].release_time

\* witness of C3: the four events happened, another key was used in between, and
\* the second record of k starts strictly after the first one ended
C3_Witness ==
    \E k \in Keys :
        /\ OpsOf(hist, k) = <<"down", "up", "down", "up">>
        /\ Len(hist) > 4
        /\ \E i, j \in RecordsOf(k) :
               /\ i < j
               /\ timings[i].release_time # NULL
               /\ timings[j].press_time > timings[i].release_time

\* C4 -- export filters incomplete records: in every state, the timing list export
\* returns is exactly the closed records, in record order, with key, press_time
\* and release_time copied; an open record never appears.
C4_ExportFiltersIncomplete ==
    LET out == exportPayload.keystroke_timings
        closed == {i \in DOMAIN timings : timings[i].release_time # NULL}
        \* the position in out of closed record i: one more than the closed records before it
        pos(i) == 1 + Cardinality({j \in closed : j < i})
    IN /\ Len(out) = Cardinality(closed)
       /\ \A i \in closed :
              out[pos(i)] = [key |-> timings[i].key,
                             press_time |-> timings[i].press_time,
                             release_time |-> timings[i].release_time]
       /\ \A n \in DOMAIN out : out[n].release_time # NULL

\* witness of C4: stop() has just returned a payload with fewer entries than
\* records: some record was closed and some was still open
C4_Witness ==
    /\ ret # <<>>
    /\ ret[1] = exportPayload
    /\ Len(ret[1].keystroke_timings) >= 2
    /\ Len(ret[1].keystroke_timings) < Len(timings)
    /\ timings[1].release_time = NULL

\* C5 -- idempotent export: on a session stopped by stop(), a later export() or
\* stop() with the same input text returns the payload stop() returned, in
\* password, keystroke_timings and total_time.
C5_IdempotentExport ==
    (/\ ~isRecording
     /\ stopRet # <<>>
     /\ ret # <<>>
     /\ ret[1].password = stopRet[1].password)
    => ret[1] = stopRet[1]

\* C16 -- release_time is set once: in every step, a record that is closed stays
\* exactly as it is for as long as it is in the list, and every closed record has
\* release_time >= press_time.
C16_ReleaseSetOnce ==
    [][/\ \A i \in DOMAIN timings \cap DOMAIN timings' :
              timings[i].release_time # NULL => timings'[i] = timings[i]
       /\ \A i \in DOMAIN timings' :
              timings'[i].release_time # NULL
                  => timings'[i].release_time >= timings'[i].press_time]_vars

\* witness of C16: a key closed with a positive dwell, then released again later
\* and pressed again, its first record still closed
C16_Witness ==
    \E k \in Keys :
        /\ Len(OpsOf(hist, k)) >= 4
        /\ SubSeq(OpsOf(hist, k), 1, 4) = <<"down", "up", "up", "down">>
        /\ \E i \in RecordsOf(k) :
               /\ timings[i].release_time # NULL
               /\ timings[i].release_time > timings[i].press_time

\* C17 -- open-key map consistency: a key is in the open-key map if and only if it
\* has an open record; it then has exactly one, and the index stored for it is the
\* (0-based) position of that record.
C17_OpenKeyMapConsistent ==
    \A k \in Keys :
        /\ k \in DOMAIN keyStates <=> OpenOf(k) # {}
        /\ Cardinality(OpenOf(k)) <= 1
        /\ k \in DOMAIN keyStates => OpenOf(k) = {keyStates[k].index + 1}

\* witness of C17: both keys are open, behind a closed record
C17_Witness ==
    /\ DOMAIN keyStates = Keys
    /\ Len(timings) >= 3
    /\ timings[1].release_time # NULL
    /\ \A k \in Keys : keyStates[k].index >= 1

\* C20 -- ordering: the press times of the records never decrease along the list,
\* and a payload returned by export or stop has a total_time that is >= every
\* press_time and release_time in it.
C20_PressOrderAndTotalTime ==
    /\ \A i, j \in DOMAIN timings : i < j => timings[i].press_time <= timings[j].press_time
    /\ ret # <<>> =>
           \A n \in DOMAIN ret[1].keystroke_timings :
               /\ ret[1].total_time >= ret[1].keystroke_timings[n].press_time
               /\ ret[1].total_time >= ret[1].keystroke_timings[n].release_time

\* witness of C20: a returned payload with two entries pressed at different times,
\* the last one released at the very time of the export
C20_Witness ==
    /\ ret # <<>>
    /\ Len(ret[1].keystroke_timings) >= 2
    /\ ret[1].keystroke_timings[1].press_time < ret[1].keystroke_timings[2].press_time
    /\ ret[1].keystroke_timings[2].release_time = ret[1].total_time

(***************************************************************************)
(* Claims about the recorder's calls (SpecCalls)                           *)
(***************************************************************************)

\* C12 -- start() restarts from any state: right after start() the session is
\* recording, with no records, an empty open-key map and startTime the current
\* clock reading, whatever it held before (so two calls in a row leave what the
\* later one alone leaves); the first press after it, of a key that was open before
\* the restart or not, appends the one fresh record of the new session.
C12_StartRestarts ==
    /\ op.name = "start" =>
           /\ isRecording
           /\ timings = <<>>
           /\ keyStates = <<>>
           /\ startTime = now
    /\ (isRecording /\ Len(hist) = 1 /\ hist[1].op = "down") =>
           /\ Len(timings) = 1
           /\ timings[1].key = hist[1].key
           /\ timings[1].release_time = NULL
           /\ op.name = "down" => timings[1].press_time = MathRoundTicks(now - startTime)
           /\ DOMAIN keyStates = {hist[1].key}

\* witness of C12: start() was called while recording with key k open, and k was
\* then pressed again, later on the clock
C12_Witness ==
    /\ before.name = "start"
    /\ before.recording
    /\ op.name = "down"
    /\ op.key \in before.open
    /\ hist = <<[op |-> "down", key |-> op.key]>>
    /\ Len(timings) = 1
    /\ startTime > 1

\* C13 -- key events outside a recording are no-ops: while the session is not
\* recording (before any start, after stop, after reset), a press or a release of
\* any key leaves records, open-key map, startTime and isRecording unchanged.
C13_KeyEventsIgnoredWhenNotRecording ==
    [][(~isRecording /\ op'.name \in {"down", "up"})
       => /\ timings' = timings
          /\ keyStates' = keyStates
          /\ startTime' = startTime
          /\ isRecording' = isRecording]_vars

\* witness of C13: after stop(), the key that was still open has been released
\* and its record is still open
C13_Witness ==
    /\ ~isRecording
    /\ stopRet # <<>>
    /\ op.name = "up"
    /\ op.key \in DOMAIN keyStates
    /\ OpenOf(op.key) # {}

\* C14 as stated -- once stop() has been called, no later call or event other than
\* reset() changes the records or startTime.
C14_StoppedImmutableUntilReset ==
    [][(~isRecording /\ stopRet # <<>> /\ op'.name # "reset")
       => (timings' = timings /\ startTime' = startTime)]_vars

\* C14 amended -- once stop() has been called, no later call or event other than
\* reset() and start() changes the records or startTime; start(), which the host
\* calls when the field gets the focus, clears the records and starts a new session.
C14_StoppedImmutableUntilResetOrStart ==
    [][(~isRecording /\ stopRet # <<>> /\ op'.name \notin {"reset", "start"})
       => (timings' = timings /\ startTime' = startTime)]_vars

\* witness of C14: a stopped session with records, on which a key press arrived
\* after the clock moved on
C14_Witness ==
    /\ ~isRecording
    /\ stopRet # <<>>
    /\ timings # <<>>
    /\ op.name = "down"
    /\ totalTime > stopRet[1].total_time

\* C15 -- reset() returns to the initial idle state: right after it there are no
\* records, no open keys, no startTime and the session is not recording; and an
\* export of a session without startTime has no timings and total_time 0.
C15_ResetAndEmptyExport ==
    /\ op.name = "reset" =>
           /\ timings = <<>>
           /\ keyStates = <<>>
           /\ startTime = NULL
           /\ ~isRecording
    /\ (ret # <<>> /\ startTime = NULL) =>
           /\ ret[1].keystroke_timings = <<>>
           /\ ret[1].total_time = 0

\* witness of C15: reset() was called on a recording with records and an open key,
\* and export was called after it, later on the clock
C15_Witness ==
    /\ before.name = "reset"
    /\ before.recording
    /\ before.records >= 2
    /\ before.open # {}
    /\ op.name = "export"
    /\ ret # <<>>
    /\ startTime = NULL
    /\ now > 1

(***************************************************************************)
(* Claims about handlePracticeSession (SpecPractice)                       *)
(***************************************************************************)

\* C18 -- transmission cannot corrupt capture state: the step that completes the
\* delivery of an attempt (any answer) leaves the recorder's records, open-key map,
\* startTime and isRecording unchanged, a recording started in the meantime included.
C18_ResponseLeavesRecorderAlone ==
    [][op'.name = "response"
       => /\ timings' = timings
          /\ keyStates' = keyStates
          /\ startTime' = startTime
          /\ isRecording' = isRecording]_vars

\* C21 -- an enrollment decision (the register button becomes enabled, or attempts
\* and recorder are reset) is taken only in the step that handles the answer to the
\* attempt that brought the counter to maxAttempts, never in the step that handles
\* the late answer to an earlier attempt.
C21_DecisionOnlyOnLastAttemptsAnswer ==
    [][(/\ op'.name = "response"
        /\ \/ registerEnabled' /\ ~registerEnabled
           \/ attempts' = 0 /\ attempts >= maxAttempts)
       => \E i \in DOMAIN pending :
              /\ pending' = RemoveAt(pending, i)
              /\ pending[i].n = maxAttempts]_vars

\* C22 -- the attempts counter never exceeds maxAttempts.
C22_AttemptsAtMostMax == attempts <= maxAttempts

(***************************************************************************)
(* Claims about the auto-start recorder (SpecAuto)                         *)
(***************************************************************************)

\* C23 -- the delayed auto-stop scheduled on blur never stops a recording while the
\* field has the focus again: when the callback runs on a focused field with a
\* recording in progress, the session is still recording afterwards (so that later
\* keystrokes are recorded).
C23_TimeoutSparesRefocusedRecording ==
    [][(op'.name = "timeout" /\ focused /\ isRecording) => isRecording']_vars

(***************************************************************************)
(* Claims about compareKeystrokePatterns                                   *)
(***************************************************************************)

\* C6 -- comparing a payload with itself: every payload export can return with
\* at least one timing entry compares to itself with score 1.0 and similar = true,
\* for every threshold <= 1.0.
C6_SelfCompareIsPerfect ==
    LET p == exportPayload
    IN Len(p.keystroke_timings) >= 1 =>
           \A th \in {t \in Thresholds : t <= 100} :
               LET r == compareKeystrokePatterns(p, p, th)
               IN r.score = 100 /\ r.similar

\* C7 as stated -- whenever the two passwords differ, the result is the
\* password-mismatch rejection with score 0 and similar = false.
C7_PasswordMismatchAlways ==
    (cmpResult # <<>> /\ pattern1.password # pattern2.password)
    => cmpResult[1] = [similar |-> FALSE, score |-> 0, reason |-> "Contrasenas diferentes"]

\* C7 amended -- whenever both patterns carry a timing list and the two passwords
\* differ, the result is the password-mismatch rejection with score 0 and
\* similar = false, whatever the two lists hold.
C7_PasswordMismatchWithLists ==
    (/\ cmpResult # <<>>
     /\ "keystroke_timings" \in DOMAIN pattern1
     /\ "keystroke_timings" \in DOMAIN pattern2
     /\ pattern1.password # pattern2.password)
    => cmpResult[1] = [similar |-> FALSE, score |-> 0, reason |-> "Contrasenas diferentes"]

\* witness of C7: passwords differ, the two timing lists are identical and would
\* otherwise score 1.0
C7_Witness ==
    /\ cmpResult # <<>>
    /\ "keystroke_timings" \in DOMAIN pattern1
    /\ "keystroke_timings" \in DOMAIN pattern2
    /\ pattern1.password # pattern2.password
    /\ pattern1.keystroke_timings = pattern2.keystroke_timings
    /\ Len(pattern1.keystroke_timings) = MaxCmpLen
    /\ compareKeystrokePatterns(pattern1, [pattern2 EXCEPT !.password = pattern1.password],
                                threshold).score = 100
    /\ cmpResult[1].reason = "Contrasenas diferentes"

\* C8 -- length gate: for two payloads with equal passwords, the result is the
\* length-mismatch rejection (score 0, similar = false) if and only if the two
\* timing lists differ in length by more than 2.
C8_LengthGate ==
    (/\ cmpResult # <<>>
     /\ "keystroke_timings" \in DOMAIN pattern1
     /\ "keystroke_timings" \in DOMAIN pattern2
     /\ pattern1.password = pattern2.password)
    => LET d == Len(pattern1.keystroke_timings) - Len(pattern2.keystroke_timings)
       IN /\ (d > 2 \/ d < -2) <=>
                 cmpResult[1] = [similar |-> FALSE, score |-> 0,
                                 reason |-> "Longitudes muy diferentes"]
          /\ (d > 2 \/ d < -2) <=> cmpResult[1].reason = "Longitudes muy diferentes"

\* witness of C8: a difference of exactly 2 went on to scoring
C8_Witness ==
    /\ cmpResult # <<>>
    /\ "keystroke_timings" \in DOMAIN pattern1
    /\ "keystroke_timings" \in DOMAIN pattern2
    /\ pattern1.password = pattern2.password
    /\ Len(pattern1.keystroke_timings) - Len(pattern2.keystroke_timings) = 2
    /\ cmpResult[1].reason = "Patron consistente"

\* the result is a scored one (reason Consistent / Inconsistent)
IsScored(r) == r.reason \in {"Patron consistente", "Patron inconsistente"}

\* the positions both lists have, with equal keys and both dwells > 0
ValidPositions(t1, t2) ==
    {i \in 1..Min(Len(t1), Len(t2)) :
        /\ t1[i].key = t2[i].key
        /\ t1[i].release_time - t1[i].press_time > 0
        /\ t2[i].release_time - t2[i].press_time > 0}

\* the sum of |dwell1 - dwell2| over the positions in V
RECURSIVE DwellDifference(_, _, _)
DwellDifference(t1, t2, V) ==
    IF V = {} THEN 0
    ELSE LET i == CHOOSE x \in V : TRUE
         IN Abs((t1[i].release_time - t1[i].press_time)
                - (t2[i].release_time - t2[i].press_time))
            + DwellDifference(t1, t2, V \ {i})

\* C11 as stated -- in every scored result, similar holds if and only if the
\* returned (rounded) score is >= the threshold, and the score lies in [0, 1].
C11_SimilarMatchesReturnedScore ==
    (cmpResult # <<>> /\ IsScored(cmpResult[1]))
    => /\ cmpResult[1].similar <=> cmpResult[1].score >= threshold
       /\ cmpResult[1].score \in 0..100

\* C11 amended -- in every scored result, similar holds if and only if the
\* unrounded score max(0, 1 - avgDifference/150) is >= the threshold; the returned
\* score is that score rounded to hundredths (within 0.005 of it) and lies in [0, 1].
C11_SimilarMatchesExactScore ==
    (cmpResult # <<>> /\ IsScored(cmpResult[1]))
    => LET t1 == pattern1.keystroke_timings
           t2 == pattern2.keystroke_timings
           V == ValidPositions(t1, t2)
           full == 150 * Cardinality(V)
           total == DwellDifference(t1, t2, V)
           \* the unrounded score is exact / full
           exact == IF total >= full THEN 0 ELSE full - total
       IN /\ cmpResult[1].similar <=> 100 * exact >= threshold * full
          /\ cmpResult[1].score \in 0..100
          /\ 2 * Abs(cmpResult[1].score * full - 100 * exact) <= full

\* witness of C11: the returned score reaches the threshold 0.7 and similar is false
C11_Witness ==
    /\ cmpResult # <<>>
    /\ IsScored(cmpResult[1])
    /\ threshold = 70
    /\ cmpResult[1].score = 70
    /\ ~cmpResult[1].similar

\* C19 -- positional alignment: for two payloads with equal passwords whose lists
\* pass the length gate, validComparisons is the number of positions i below
\* min(len1, len2) with equal keys and both dwells > 0, avgDifference is the
\* (rounded) mean of |dwell1 - dwell2| over exactly those positions, and when there
\* is no such position the result is NoValidComparisons with score 0, similar false.
C19_PositionalAlignment ==
    (/\ cmpResult # <<>>
     /\ "keystroke_timings" \in DOMAIN pattern1
     /\ "keystroke_timings" \in DOMAIN pattern2
     /\ pattern1.password = pattern2.password
     /\ Abs(Len(pattern1.keystroke_timings) - Len(pattern2.keystroke_timings)) <= 2)
    => LET t1 == pattern1.keystroke_timings
           t2 == pattern2.keystroke_timings
           V == ValidPositions(t1, t2)
           n == Cardinality(V)
           total == DwellDifference(t1, t2, V)
       IN IF n = 0
          THEN cmpResult[1] = [similar |-> FALSE, score |-> 0,
                               reason |-> "No hay comparaciones validas"]
          ELSE /\ IsScored(cmpResult[1])
               /\ cmpResult[1].validComparisons = n
               /\ cmpResult[1].avgDifference = (2 * total + n) \div (2 * n)

\* witness of C19: lists of different lengths with a key mismatch at one position,
\* a dwell of 0 at another, and one valid comparison with a difference of 91 ms
C19_Witness ==
    /\ cmpResult # <<>>
    /\ "keystroke_timings" \in DOMAIN pattern1
    /\ "keystroke_timings" \in DOMAIN pattern2
    /\ pattern1.password = pattern2.password
    /\ LET t1 == pattern1.keystroke_timings
           t2 == pattern2.keystroke_timings
       IN /\ Len(t1) = 3
          /\ Len(t2) = 2
          /\ t1[1].key # t2[1].key
          /\ t1[2].key = t2[2].key
          /\ ValidPositions(t1, t2) = {2}
          /\ \E i \in 1..3 : t1[i].release_time = t1[i].press_time
    /\ IsScored(cmpResult[1])
    /\ cmpResult[1].validComparisons = 1
    /\ cmpResult[1].avgDifference = 91

(***************************************************************************)
(* Claims about analyzeKeystrokePattern                                    *)
(***************************************************************************)

\* the result reports the anomaly a
Raises(r, a) == "anomalies" \in DOMAIN r /\ \E i \in DOMAIN r.anomalies : r.anomalies[i] = a

\* C9 -- excessive overlap: the analysis of a payload reports the overlap anomaly
\* (and so valid = false) exactly when more than half of its len - 1 consecutive
\* pairs have a negative flight, press of the next before release of the previous.
C9_ExcessiveOverlap ==
    (anaResult # <<>> /\ "keystroke_timings" \in DOMAIN data)
    => LET ts == data.keystroke_timings
           pairs == 1..(Len(ts) - 1)
           negative == {i \in pairs : ts[i + 1].press_time < ts[i].release_time}
       IN (2 * Cardinality(negative) > Cardinality(pairs))
              <=> (Raises(anaResult[1], "Demasiadas teclas superpuestas")
                   /\ ~anaResult[1].valid)

\* C10 -- keys held too long: the analysis reports that anomaly exactly when the
\* number of entries with a dwell above 500 ms is more than 30% of all the timing
\* entries, entries with a dwell <= 0 included in the total.
C10_KeysHeldTooLong ==
    (anaResult # <<>> /\ "keystroke_timings" \in DOMAIN data)
    => LET ts == data.keystroke_timings
           long == {i \in DOMAIN ts : ts[i].release_time - ts[i].press_time > 500}
       IN (10 * Cardinality(long) > 3 * Len(ts))
              <=> Raises(anaResult[1], "Muchas teclas mantenidas demasiado tiempo")

\* witness of C10: 3 long dwells among 10 entries, some of them with dwell 0, and
\* the anomaly is not reported
C10_Witness ==
    /\ anaResult # <<>>
    /\ "keystroke_timings" \in DOMAIN data
    /\ LET ts == data.keystroke_timings
       IN /\ Len(ts) = 10
          /\ Cardinality({i \in DOMAIN ts : ts[i].release_time - ts[i].press_time > 500}) = 3
          /\ \E i \in DOMAIN ts : ts[i].release_time - ts[i].press_time <= 0
          /\ "anomalies" \in DOMAIN anaResult[1]
          /\ ~Raises(anaResult[1], "Muchas teclas mantenidas demasiado tiempo")

====
